---- MODULE Spec2Model ----
(***************************************************************************)
(* Model of dss_custom_tools/jupyter_form.py: the DownloadForm controller. *)
(*                                                                         *)
(* Python values are represented as follows.                               *)
(*   - a list is a sequence; a dict whose insertion order matters is a     *)
(*     sequence of records carrying their key; a dict used only by lookup  *)
(*     is a function;                                                      *)
(*   - an optional dict key is a sequence of length 0 (absent) or 1;       *)
(*   - None is the string NoneValue;                                       *)
(*   - a text built by an f-string is the sequence of its fragments.       *)
(***************************************************************************)
EXTENDS Integers, Sequences, FiniteSets, TLC

VARIABLES
    value,          \* collection_widget.value (the dataset selector)
    collection_id,  \* self.collection_id
    request,        \* self.request: sequence of [key, val], dict insertion order
    widget_defs,    \* self.widget_defs: sequence of controls, dict insertion order
    form,           \* collection.form of the collection fetched last
    form_widgets,   \* form_widgets of the last _build_form / translation
    selection,      \* the closure dict `selection` of the last _build_form
    preview,        \* content of self.selection_output
    output,         \* what self.output shows: "prompt", "loading" or "form"
    displayed,      \* keys of the field controls inside the displayed VBox
    error,          \* the exception the last event raised to its caller
    provider,       \* how the constraint evaluator answers: "any" or "rows"
    calls,          \* the apply_constraints calls made by the last event
    lastEvent       \* the last event handled

vars == <<value, collection_id, request, widget_defs, form, form_widgets,
          selection, preview, output, displayed, error, provider, calls,
          lastEvent>>

NoneValue == "None"

\* ------------------------------------------------------------------------
\* Python helpers
\* ------------------------------------------------------------------------

Range(s) == {s[i] : i \in 1..Len(s)}

\* d.get(k, dflt) for an optional key
Get(opt, dflt) == IF opt = <<>> THEN dflt ELSE opt[1]

Max(a, b) == IF a >= b THEN a ELSE b

\* dict.update: the right operand wins
DictUpdate(d, e) ==
    [k \in (DOMAIN d) \cup (DOMAIN e) |-> IF k \in DOMAIN e THEN e[k] ELSE d[k]]

EmptyDict == [k \in {} |-> k]

\* keys of an ordered dict
Keys(d) == {d[i].key : i \in 1..Len(d)}

\* d[k] of an ordered dict that has k
Lookup(d, k) == d[CHOOSE i \in 1..Len(d) : d[i].key = k]

\* ------------------------------------------------------------------------
\* _form_json_to_widgets_dict
\* ------------------------------------------------------------------------

ignore_widget_names == {"download_format", "data_format"}

ignore_widget_types ==
    {"ExclusiveGroupWidget", "FreeEditionWidget", "GeographicExtentWidget",
     "GeographicLocationWidget", "LicenceWidget"}

\* widget_map.get(widget_type, widget_type)
widget_map(widget_type) ==
    IF widget_type \in {"StringListWidget", "StringListArrayWidget"}
    THEN "checkbox"
    ELSE IF widget_type = "StringChoiceWidget" THEN "radio" ELSE widget_type

\* values += [v for v in group.get("values", []) if v not in values]
\* (the comprehension reads `values` as it was before the +=)
ExtendValues(values, group_values) ==
    values \o SelectSeq(group_values, LAMBDA v : v \notin Range(values))

\* the loop over details["groups"]: acc is [labels, values, columns]
RECURSIVE MergeGroups(_, _, _)
MergeGroups(groups, i, acc) ==
    IF i > Len(groups) THEN acc
    ELSE MergeGroups(groups, i + 1,
            [labels  |-> DictUpdate(acc.labels, groups[i].labels),
             values  |-> ExtendValues(acc.values, groups[i].values),
             columns |-> Max(acc.columns, Get(groups[i].columns, 1))])

\* labels, values and columns of one schema entry (lines 256-268)
EntryDetails(details) ==
    IF details.groups # <<>>
    THEN MergeGroups(details.groups[1], 1,
            [labels |-> EmptyDict, values |-> <<>>, columns |-> 1])
    ELSE [labels  |-> details.labels,
          values  |-> details.values,
          columns |-> Get(details.columns, 1)]

\* the first test without the ignored types
IsIgnoredNameOnly(widget) == Get(widget.name, "") \in ignore_widget_names

\* whether the loop skips the entry at its first test (line 249)
IsIgnored(widget) ==
    \/ Get(widget.name, "") \in ignore_widget_names
    \/ Get(widget.type, "") \in ignore_widget_types

\* out_widgets[widget_name] as built by one iteration (lines 253-275)
TranslateEntry(widget) ==
    LET d == EntryDetails(widget.details)
    IN  [key     |-> Get(widget.name, ""),
         label   |-> widget.label,
         labels  |-> d.labels,
         values  |-> d.values,
         title   |-> <<Get(widget.label, "")>>,
         type    |-> widget_map(Get(widget.type, "")),
         columns |-> d.columns,
         default |-> widget.details.default]

\* the loop with a later entry of a name replacing the earlier one
RECURSIVE TranslateFromLastWins(_, _, _)
TranslateFromLastWins(schema, i, out_widgets) ==
    IF i > Len(schema) THEN out_widgets
    ELSE IF IsIgnored(schema[i]) THEN TranslateFromLastWins(schema, i + 1, out_widgets)
    ELSE IF Get(schema[i].name, "") \in Keys(out_widgets)
         THEN TranslateFromLastWins(schema, i + 1,
                [n \in 1..Len(out_widgets) |->
                    IF out_widgets[n].key = Get(schema[i].name, "")
                    THEN TranslateEntry(schema[i]) ELSE out_widgets[n]])
    ELSE TranslateFromLastWins(schema, i + 1,
                       Append(out_widgets, TranslateEntry(schema[i])))

RECURSIVE TranslateFrom(_, _, _)
TranslateFrom(schema, i, out_widgets) ==
    IF i > Len(schema) THEN out_widgets
    ELSE IF IsIgnored(schema[i]) THEN TranslateFrom(schema, i + 1, out_widgets)
    ELSE IF Get(schema[i].name, "") \in Keys(out_widgets)
         THEN TranslateFrom(schema, i + 1, out_widgets)
    ELSE TranslateFrom(schema, i + 1,
                       Append(out_widgets, TranslateEntry(schema[i])))

FormJsonToWidgetsDict(schema) == TranslateFrom(schema, 1, <<>>)

\* ------------------------------------------------------------------------
\* Controls.  A control is the VBox built at lines 178-188 with the
\* closures attached to it:
\*   key, kind  the field name and widget_type ("checkbox" or "radio")
\*   cls        the widget class of the control and whether children[1] is
\*              a GridBox
\*   opts       the options list captured by get_value
\*   on, vis    per sub-control (ToggleButton): tb.value and whether
\*              tb.layout.display is "" (TRUE) or "none" (FALSE)
\* ------------------------------------------------------------------------

\* ordered-dict assignment d[k] = v
DictSet(d, k, v) ==
    IF k \in Keys(d)
    THEN [i \in 1..Len(d) |-> IF d[i].key = k THEN [d[i] EXCEPT !.val = v] ELSE d[i]]
    ELSE Append(d, [key |-> k, val |-> v])

\* [opt for opt, tb in zip(opts, tb_list) if tb.value]
RECURSIVE OnOptions(_, _, _)
OnOptions(opts, on, i) ==
    IF i > Len(opts) \/ i > Len(on) THEN <<>>
    ELSE (IF on[i] THEN <<opts[i]>> ELSE <<>>) \o OnOptions(opts, on, i + 1)

\* a get_value that stops at the first option that is on
GetValueFirstOnly(w) ==
    LET chosen == OnOptions(w.opts, w.on, 1)
    IN  IF chosen = <<>> THEN <<>> ELSE <<chosen[1]>>

\* get_value of a checkbox field (lines 147-148)
get_value_checkbox(w) == OnOptions(w.opts, w.on, 1)

\* get_value of a radio field (lines 169-173): the first option that is on
get_value_radio(w) ==
    LET chosen == OnOptions(w.opts, w.on, 1)
    IN  IF chosen = <<>> THEN <<>> ELSE <<chosen[1]>>

\* widget._get_value()
get_value(w) ==
    IF w.kind = "checkbox" THEN get_value_checkbox(w) ELSE get_value_radio(w)

\* the dict comprehension of _update_selection_state (lines 222-226)
RECURSIVE RequestFrom(_, _)
RequestFrom(defs, i) ==
    IF i > Len(defs) THEN <<>>
    ELSE (IF get_value(defs[i]) # <<>>
          THEN <<[key |-> defs[i].key, val |-> get_value(defs[i])]>>
          ELSE <<>>) \o RequestFrom(defs, i + 1)

\* _update_selection_state on the handler state m
UpdateSelectionState(m, selector) ==
    [m EXCEPT !.collection_id = selector,
              !.request = RequestFrom(m.widget_defs, 1)]

\* json.dumps(selection, indent=2): the members of the JSON object, in order
JsonDumps(d) == [i \in 1..Len(d) |-> <<d[i].key, d[i].val>>]

\* update_selection_display (lines 88-92)
UpdateSelectionDisplay(m) == [m EXCEPT !.preview = <<JsonDumps(m.selection)>>]

\* lines 95-97: selection[key] = widget._get_value() for every control
RECURSIVE RecomputeSelection(_, _, _)
RecomputeSelection(sel, defs, i) ==
    IF i > Len(defs) THEN sel
    ELSE RecomputeSelection(DictSet(sel, defs[i].key, get_value(defs[i])),
                            defs, i + 1)

\* {k: v for k, v in selection.items() if v}
NonEmpty(sel) == SelectSeq(sel, LAMBDA e : e.val # <<>>)

\* lines 108-110: the test of the first branch of on_change's update
IsGridBoxControl(w) == w.cls = "VBox"

\* an update that also switches the hidden sub-controls off
ApplyAllowedClearing(w, fw, values) ==
    [w EXCEPT !.vis = [i \in 1..Len(w.on) |->
                          i <= Len(fw.values) /\ fw.values[i] \in values],
              !.on  = [i \in 1..Len(w.on) |->
                          w.on[i] /\ i <= Len(fw.values) /\ fw.values[i] \in values]]

\* lines 106-124: the update of one control for one (key, values) item of
\* the constraint response; values is the legal list, used by membership
ApplyAllowed(w, fw, values) ==
    IF IsGridBoxControl(w)
    THEN \* hide all, then show those zipped with a legal option
         [w EXCEPT !.vis = [i \in 1..Len(w.on) |->
                               i <= Len(fw.values) /\ fw.values[i] \in values]]
    ELSE IF w.cls = "RadioButtons"
    THEN \* options replaced by the legal values, value cleared if not legal
         [w EXCEPT !.vis = [i \in 1..Len(w.on) |-> w.opts[i] \in values],
                   !.on  = [i \in 1..Len(w.on) |-> w.on[i] /\ w.opts[i] \in values]]
    ELSE IF w.cls = "SelectMultiple"
    THEN [w EXCEPT !.vis = [i \in 1..Len(w.on) |-> w.opts[i] \in values],
                   !.on  = [i \in 1..Len(w.on) |-> w.on[i] /\ w.opts[i] \in values]]
    ELSE w

\* a loop that also switches off what the answer does not allow
ApplyResponseClearing(defs, fws, allowed) ==
    [n \in 1..Len(defs) |->
        IF defs[n].key \in DOMAIN allowed /\ defs[n].key \in Keys(fws)
        THEN [defs[n] EXCEPT
                !.vis = [i \in 1..Len(@) |-> defs[n].opts[i] \in allowed[defs[n].key]],
                !.on  = [i \in 1..Len(@) |->
                            @[i] /\ defs[n].opts[i] \in allowed[defs[n].key]]]
        ELSE defs[n]]

\* lines 103-124: the loop over allowed_options.items()
ApplyResponse(defs, fws, allowed) ==
    [n \in 1..Len(defs) |->
        IF defs[n].key \in DOMAIN allowed /\ defs[n].key \in Keys(fws)
        THEN ApplyAllowed(defs[n], Lookup(fws, defs[n].key), allowed[defs[n].key])
        ELSE defs[n]]

\* an on_change that runs the query again after applying the response
OnChangeRepeating(m, fws, selector, allowed, pending) ==
    LET sel   == RecomputeSelection(m.selection, m.widget_defs, 1)
        query == NonEmpty(sel)
        call  == [query |-> query, pending |-> pending]
        m1    == [m EXCEPT !.selection = sel,
                           !.widget_defs = ApplyResponse(m.widget_defs, fws, allowed),
                           !.calls = Append(Append(m.calls, call), call)]
    IN  UpdateSelectionDisplay(UpdateSelectionState(m1, selector))

\* on_change (lines 94-127) on the handler state m, the constraint evaluator
\* answering `allowed`; `pending` is the extraction of a control that is
\* under construction and not yet in widget_defs (recorded, not read)
OnChange(m, fws, selector, allowed, pending) ==
    LET sel   == RecomputeSelection(m.selection, m.widget_defs, 1)
        query == NonEmpty(sel)
        m1    == [m EXCEPT !.selection = sel,
                           !.widget_defs = ApplyResponse(m.widget_defs, fws, allowed),
                           !.calls = Append(m.calls,
                                [query |-> query, pending |-> pending])]
    IN  UpdateSelectionDisplay(UpdateSelectionState(m1, selector))

\* ------------------------------------------------------------------------
\* The provider (datapi.ApiClient): the collections it serves
\* ------------------------------------------------------------------------

\* a schema entry without groups, labels or columns
Field(name, type, values, default) ==
    [name |-> <<name>>, type |-> type, label |-> <<name>>,
     details |-> [groups |-> <<>>, labels |-> EmptyDict, values |-> values,
                  columns |-> <<>>, default |-> default]]

\* client.get_collection(id): title, form and the constraint rows behind
\* apply_constraints, for each id of client.get_collections().collection_ids
Catalogue ==
    [alpha |->
        [title |-> "Alpha",
         form  |-> << Field("variable", <<"StringListWidget">>, <<"a", "b">>, <<>>),
                      Field("level", <<"StringChoiceWidget">>, <<"x", "y">>, <<>>),
                      Field("download_format", <<"StringChoiceWidget">>, <<"zip">>, <<>>),
                      Field("licences", <<"LicenceWidget">>, <<>>, <<>>) >>,
         rows  |-> { [variable |-> {"a"}, level |-> {"x"}],
                     [variable |-> {"b"}, level |-> {"y"}] }],
     beta |->
        [title |-> "Beta",
         form  |-> << Field("variable", <<"StringListArrayWidget">>, <<"a", "b">>, << <<"a">> >>),
                      Field("mode", <<"StringChoiceWidget">>, <<"x", "y">>, << <<"x", "y">> >>) >>,
         rows  |-> { [variable |-> {"a"}, mode |-> {"y"}],
                     [variable |-> {"b"}, mode |-> {"x"}] }],
     gamma |->
        [title |-> "Gamma",
         form  |-> << Field("area", <<"DateRangeWidget">>, <<>>, <<>>),
                      Field("product", <<"StringListWidget">>, <<"a", "b">>, <<>>) >>,
         rows  |-> { [product |-> {"a", "b"}] }],
     delta |->
        [title |-> "Delta",
         form  |-> << Field("product", <<"StringListWidget">>, <<"a", "b">>, << <<"b">> >>),
                      Field("date", <<>>, <<"x">>, <<>>) >>,
         rows  |-> { [product |-> {"a", "b"}, date |-> {"x"}] }],
     epsilon |->
        [title |-> "Epsilon",
         form  |-> << Field("variable", <<"StringChoiceWidget">>, <<"a", "b">>, <<>>),
                      Field("date", <<"DateRangeWidget">>, <<"x">>, <<>>) >>,
         rows  |-> { [variable |-> {"a", "b"}, date |-> {"x"}] }]]

\* self.collections: the options of the dataset selector
collections == DOMAIN Catalogue

\* a constraint row admits the query on every field other than f
Compatible(row, query, f) ==
    \A i \in 1..Len(query) :
        (query[i].key # f /\ query[i].key \in DOMAIN row)
            => (Range(query[i].val) \cap row[query[i].key]) # {}

\* collection.apply_constraints(query) of a provider that answers from
\* constraint rows: per field, the values of the rows the rest of the query
\* admits
ApplyConstraints(rows, query) ==
    [f \in UNION {DOMAIN r : r \in rows} |->
        UNION {r[f] : r \in {x \in rows : f \in DOMAIN x /\ Compatible(x, query, f)}}]

\* every answer a provider can give for a form: any subset of the field
\* names, each with any subset of the field's values
AnyResponses(fws) ==
    UNION { {r \in [K -> SUBSET (UNION {Range(fws[i].values) : i \in 1..Len(fws)})] :
                \A k \in K : r[k] \subseteq Range(Lookup(fws, k).values)} :
            K \in SUBSET Keys(fws) }

\* the answers collection.apply_constraints(query) may return
Answers(mode, cid, fws, query) ==
    IF mode = "rows"
    THEN {ApplyConstraints(Catalogue[cid].rows, query)}
    ELSE AnyResponses(fws)

\* on_change with every answer the provider may give
OnChangeSet(m, mode, fws, cid, pending) ==
    { OnChange(m, fws, cid, a, pending) :
        a \in Answers(mode, cid, fws,
                      NonEmpty(RecomputeSelection(m.selection, m.widget_defs, 1))) }

\* ------------------------------------------------------------------------
\* _build_form
\* ------------------------------------------------------------------------

\* on_radio_click leaving the siblings as they are
RadioClickKeepSiblings(on, j) == on

\* on_radio_click for change["new"] true (lines 157-160): the siblings of
\* the owner are switched off (their own callbacks see new = False)
RadioClick(on, j) == [i \in 1..Len(on) |-> i = j]

\* the buttons of a control after button j was switched on, its observers
\* having run up to the call of on_change
SwitchOn(kind, on, j) ==
    IF kind = "radio" THEN RadioClick([on EXCEPT ![j] = TRUE], j)
    ELSE [on EXCEPT ![j] = TRUE]

\* a build that leaves every button off, whatever the defaults
ApplyDefaultsNone(f, j, on, ms, mode, fws, cid) == [on |-> on, ms |-> ms]

\* lines 190-192: tb.value = opt in default_values, button by button; a
\* button that changes to True runs its observer, which ends in on_change.
\* ms is the set of handler states the provider's answers can have led to.
RECURSIVE ApplyDefaults(_, _, _, _, _, _, _)
ApplyDefaults(f, j, on, ms, mode, fws, cid) ==
    IF j > Len(f.values) THEN [on |-> on, ms |-> ms]
    ELSE IF f.values[j] \in Range(Get(f.default, <<>>))
    THEN LET on1  == SwitchOn(f.type, on, j)
             pend == [key |-> f.key,
                      val |-> get_value([kind |-> f.type, opts |-> f.values,
                                         on |-> on1])]
         IN  ApplyDefaults(f, j + 1, on1,
                 UNION {OnChangeSet(m, mode, fws, cid, <<pend>>) : m \in ms},
                 mode, fws, cid)
    ELSE ApplyDefaults(f, j + 1, on, ms, mode, fws, cid)

\* self.widget_defs[key] = widget (line 195)
WidgetSet(defs, w) ==
    IF w.key \in Keys(defs)
    THEN [i \in 1..Len(defs) |-> IF defs[i].key = w.key THEN w ELSE defs[i]]
    ELSE Append(defs, w)

\* lines 197-214: the end of a build that did not raise
FinishBuild(m, cid) ==
    [UpdateSelectionState(m, cid) EXCEPT
        !.output = "form",
        !.displayed = [i \in 1..Len(m.widget_defs) |-> m.widget_defs[i].key]]

\* a loop that takes every widget type
UnsupportedNever(widget_type) == FALSE

\* lines 145, 153 and 175: the widget types the loop has no branch for
Unsupported(widget_type) == widget_type \notin {"checkbox", "radio"}

\* the loop of lines 129-195 from field i on; it stops where it raises
RECURSIVE BuildFrom(_, _, _, _, _)
BuildFrom(fws, i, ms, mode, cid) ==
    IF i > Len(fws) THEN {FinishBuild(m, cid) : m \in ms}
    ELSE IF Unsupported(fws[i].type)
    THEN {[m EXCEPT !.error = "ValueError"] : m \in ms}
    ELSE LET f == fws[i]
             r == ApplyDefaults(f, 1, [k \in 1..Len(f.values) |-> FALSE], ms,
                                mode, fws, cid)
             w == [key |-> f.key, kind |-> f.type, cls |-> "VBox",
                   opts |-> f.values, on |-> r.on,
                   vis |-> [k \in 1..Len(f.values) |-> TRUE]]
         IN  BuildFrom(fws, i + 1,
                       {[m EXCEPT !.widget_defs = WidgetSet(@, w)] : m \in r.ms},
                       mode, cid)

\* line 154: the title of every radio field the loop reached
RECURSIVE MarkTitles(_, _)
MarkTitles(fws, i) ==
    IF i > Len(fws) \/ Unsupported(fws[i].type) THEN fws
    ELSE MarkTitles(
            IF fws[i].type = "radio"
            THEN [fws EXCEPT ![i].title = Append(@, " (select one)")]
            ELSE fws,
            i + 1)

\* the handler state: the part of the program state a handler changes
Handler ==
    [widget_defs |-> widget_defs, selection |-> selection, request |-> request,
     collection_id |-> collection_id, preview |-> preview, calls |-> <<>>,
     error |-> "none", output |-> output, displayed |-> displayed]

\* _build_form without self.widget_defs.clear()
BuildFormKeepControls(m, mode, cid) ==
    LET fws == FormJsonToWidgetsDict(Catalogue[cid].form)
        m0  == [m EXCEPT !.output = "loading", !.displayed = <<>>,
                         !.preview = <<>>, !.selection = <<>>]
    IN  BuildFrom(fws, 1, {m0}, mode, cid)

\* _build_form(cid): the states it can end in
BuildForm(m, mode, cid) ==
    LET fws == FormJsonToWidgetsDict(Catalogue[cid].form)
        m0  == [m EXCEPT !.output = "loading", !.displayed = <<>>,
                         !.preview = <<>>, !.widget_defs = <<>>,
                         !.selection = <<>>]
    IN  BuildFrom(fws, 1, {m0}, mode, cid)

Commit(m) ==
    /\ widget_defs' = m.widget_defs
    /\ selection' = m.selection
    /\ request' = m.request
    /\ collection_id' = m.collection_id
    /\ preview' = m.preview
    /\ calls' = m.calls
    /\ error' = m.error
    /\ output' = m.output
    /\ displayed' = m.displayed

\* ------------------------------------------------------------------------
\* Events
\* ------------------------------------------------------------------------

NoEvent ==
    [kind |-> "init", key |-> "", idx |-> 0, on |-> FALSE,
     id |-> NoneValue, old |-> NoneValue]

\* __init__ (lines 36-58): nothing is pre-selected, so the prompt is shown
Init ==
    /\ value = NoneValue
    /\ collection_id = NoneValue
    /\ request = <<>>
    /\ widget_defs = <<>>
    /\ form = <<>>
    /\ form_widgets = <<>>
    /\ selection = <<>>
    /\ preview = <<>>
    /\ output = "prompt"
    /\ displayed = <<>>
    /\ error = "none"
    /\ provider \in {"any", "rows"}
    /\ calls = <<>>
    /\ lastEvent = NoEvent

\* the user picks `new` in the dataset selector: _on_collection_change
OnCollectionChange(new) ==
    /\ new \in collections
    /\ lastEvent' = [kind |-> "dataset", key |-> "", idx |-> 0, on |-> FALSE,
                     id |-> new, old |-> value]
    /\ value' = new
    /\ UNCHANGED provider
    /\ IF new # value
       THEN /\ form' = Catalogue[new].form
            /\ form_widgets' = MarkTitles(FormJsonToWidgetsDict(Catalogue[new].form), 1)
            /\ \E m \in BuildForm(Handler, provider, new) : Commit(m)
       ELSE /\ UNCHANGED <<form, form_widgets>>
            /\ Commit(Handler)

\* the user clicks sub-control j of the n-th displayed control, a checkbox
\* field: the button changes and on_change runs (line 151)
ToggleCheckbox(n, j) ==
    /\ output = "form"
    /\ n \in 1..Len(widget_defs)
    /\ widget_defs[n].kind = "checkbox"
    /\ j \in 1..Len(widget_defs[n].on)
    /\ widget_defs[n].vis[j]
    /\ lastEvent' = [kind |-> "toggle", key |-> widget_defs[n].key, idx |-> j,
                     on |-> ~widget_defs[n].on[j], id |-> value, old |-> value]
    /\ LET m == [Handler EXCEPT !.widget_defs[n].on[j] = ~@]
       IN  \E m2 \in OnChangeSet(m, provider, form_widgets, value, <<>>) : Commit(m2)
    /\ UNCHANGED <<value, form, form_widgets, provider>>

\* the user clicks sub-control j of the n-th displayed control, a radio
\* field: on_radio_click runs (lines 156-167)
ToggleRadio(n, j) ==
    /\ output = "form"
    /\ n \in 1..Len(widget_defs)
    /\ widget_defs[n].kind = "radio"
    /\ j \in 1..Len(widget_defs[n].on)
    /\ widget_defs[n].vis[j]
    /\ lastEvent' = [kind |-> "toggle", key |-> widget_defs[n].key, idx |-> j,
                     on |-> ~widget_defs[n].on[j], id |-> value, old |-> value]
    /\ IF ~widget_defs[n].on[j]
       THEN LET m == [Handler EXCEPT
                        !.widget_defs[n].on = SwitchOn("radio", @, j)]
            IN  \E m2 \in OnChangeSet(m, provider, form_widgets, value, <<>>) :
                    Commit(m2)
       ELSE Commit([Handler EXCEPT !.widget_defs[n].on[j] = FALSE])
    /\ UNCHANGED <<value, form, form_widgets, provider>>

Next ==
    \/ \E new \in collections : OnCollectionChange(new)
    \/ \E n \in 1..Len(widget_defs) :
          \E j \in 1..Len(widget_defs[n].on) : ToggleCheckbox(n, j)
    \/ \E n \in 1..Len(widget_defs) :
          \E j \in 1..Len(widget_defs[n].on) : ToggleRadio(n, j)

Spec == Init /\ [][Next]_vars

\* ------------------------------------------------------------------------
\* Schema translation on its own: _form_json_to_widgets_dict applied to
\* every schema of at most MaxEntries entries
\* ------------------------------------------------------------------------

MaxEntries == 2

SchemaNames == {<<"variable">>, <<"download_format">>, <<>>}

SchemaTypes ==
    {<<"StringListWidget">>, <<"StringChoiceWidget">>, <<"LicenceWidget">>,
     <<"DateRangeWidget">>, <<>>}

SchemaDetails ==
    { [groups |-> <<>>, labels |-> [k \in {"a"} |-> "Alpha"],
       values |-> <<"a", "b">>, columns |-> <<>>, default |-> <<>>],
      [groups |-> <<>>, labels |-> EmptyDict,
       values |-> <<"b">>, columns |-> <<2>>, default |-> << <<"b">> >>],
      [groups |-> << << [labels |-> EmptyDict, values |-> <<"x", "y">>,
                        columns |-> <<2>>],
                       [labels |-> [k \in {"y"} |-> "Why"], values |-> <<"y", "z">>,
                        columns |-> <<3>>] >> >>,
       labels |-> EmptyDict, values |-> <<>>, columns |-> <<>>,
       default |-> <<>>] }

SchemaEntries ==
    { [name |-> n, type |-> t, label |-> n, details |-> d] :
        n \in SchemaNames, t \in SchemaTypes, d \in SchemaDetails }

Schemas == UNION { [1..k -> SchemaEntries] : k \in 0..MaxEntries }

InitTranslate ==
    /\ value = NoneValue
    /\ collection_id = NoneValue
    /\ request = <<>>
    /\ widget_defs = <<>>
    /\ form \in Schemas
    /\ form_widgets = <<>>
    /\ selection = <<>>
    /\ preview = <<>>
    /\ output = "prompt"
    /\ displayed = <<>>
    /\ error = "none"
    /\ provider = "rows"
    /\ calls = <<>>
    /\ lastEvent = NoEvent

\* form_widgets = self._form_json_to_widgets_dict(collection.form) (line 85)
Translate ==
    /\ lastEvent.kind = "init"
    /\ form_widgets' = FormJsonToWidgetsDict(form)
    /\ lastEvent' = [NoEvent EXCEPT !.kind = "translate"]
    /\ UNCHANGED <<value, collection_id, request, widget_defs, form, selection,
                   preview, output, displayed, error, provider, calls>>

NextTranslate == Translate

SpecTranslate == InitTranslate /\ [][NextTranslate]_vars

\* ------------------------------------------------------------------------
\* Group merging on its own: _form_json_to_widgets_dict applied to one
\* entry whose details hold at most MaxGroups groups, each of at most
\* MaxGroupValues values
\* ------------------------------------------------------------------------

MaxGroups == 2

MaxGroupValues == 2

GroupValueLists ==
    UNION { [1..k -> {"x", "y", "z"}] : k \in 0..MaxGroupValues }

GroupSet ==
    { [labels |-> EmptyDict, values |-> v, columns |-> c] :
        v \in GroupValueLists, c \in {<<>>, <<2>>, <<3>>} }

GroupSchemas ==
    { << [name |-> <<"variable">>, type |-> <<"StringListWidget">>,
          label |-> <<"Variable">>,
          details |-> [groups |-> <<g>>, labels |-> EmptyDict, values |-> <<>>,
                       columns |-> <<>>, default |-> <<>>]] >> :
        g \in UNION { [1..k -> GroupSet] : k \in 0..MaxGroups } }

InitGroups ==
    /\ value = NoneValue
    /\ collection_id = NoneValue
    /\ request = <<>>
    /\ widget_defs = <<>>
    /\ form \in GroupSchemas
    /\ form_widgets = <<>>
    /\ selection = <<>>
    /\ preview = <<>>
    /\ output = "prompt"
    /\ displayed = <<>>
    /\ error = "none"
    /\ provider = "rows"
    /\ calls = <<>>
    /\ lastEvent = NoEvent

NextGroups == Translate

SpecGroups == InitGroups /\ [][NextGroups]_vars

\* ------------------------------------------------------------------------
\* Properties
\* ------------------------------------------------------------------------

\* the control of field k, the options that are on, the declared defaults
Controls == {widget_defs[n] : n \in 1..Len(widget_defs)}

OnIndices(w) == {i \in 1..Len(w.on) : w.on[i]}

DefaultsOf(w) == Range(Get(Lookup(form_widgets, w.key).default, <<>>))

\* the controls' own selection: the non-empty extractions, in control order
CurrentSelection ==
    SelectSeq([n \in 1..Len(widget_defs) |->
                  [key |-> widget_defs[n].key, val |-> get_value(widget_defs[n])]],
              LAMBDA e : e.val # <<>>)

\* an interaction (a toggle, or a change of the selected dataset) has
\* completed without raising
Interacted ==
    /\ \/ lastEvent.kind = "toggle"
       \/ lastEvent.kind = "dataset" /\ lastEvent.id # lastEvent.old
    /\ error = "none"

\* a change propagation (on_change) has just run for a user toggle
Propagated == lastEvent.kind = "toggle" /\ calls # <<>>

\* a form has just been built by a dataset change
JustBuilt ==
    /\ lastEvent.kind = "dataset"
    /\ lastEvent.id # lastEvent.old
    /\ output = "form"

\* C1: after any completed interaction (a toggle on or off in a checkbox or
\* a radio field, or a dataset change) `request` is exactly the mapping of
\* every control with a non-empty extraction to that extraction, and
\* `collection_id` is the dataset chosen in the selector.
C1_RequestTracksControls ==
    Interacted => (collection_id = value /\ request = CurrentSelection)

\* C1, restricted to the interactions other than switching a radio
\* sub-control off
C1_ExceptRadioOff ==
    (Interacted /\ ~(\E w \in Controls : /\ w.kind = "radio"
                                         /\ lastEvent.kind = "toggle"
                                         /\ lastEvent.key = w.key
                                         /\ ~lastEvent.on))
        => (collection_id = value /\ request = CurrentSelection)

\* C2: for every radio field at most one sub-control is on and the
\* extraction has at most one value; once the form is built the field's
\* entry in `request`, if any, has exactly one value.
C2_RadioAtMostOne ==
    \A w \in Controls :
        w.kind = "radio" =>
            /\ Cardinality(OnIndices(w)) <= 1
            /\ Len(get_value(w)) <= 1
            /\ output = "form" =>
                 \A i \in 1..Len(request) :
                     request[i].key = w.key => Len(request[i].val) = 1

\* C2 witness: in beta, whose radio field mode is built with y on, the user
\* has switched x on, and x alone is on.
C2_Witness ==
    /\ value = "beta" /\ output = "form"
    /\ lastEvent = [kind |-> "toggle", key |-> "mode", idx |-> 1, on |-> TRUE,
                    id |-> "beta", old |-> "beta"]
    /\ \E w \in Controls : w.key = "mode" /\ w.on = <<TRUE, FALSE>>
    /\ \E i \in 1..Len(request) : request[i] = [key |-> "mode", val |-> <<"x">>]

\* the answer of the rows provider to the last query of the last event
LastAnswer ==
    ApplyConstraints(Catalogue[value].rows, calls[Len(calls)].query)

\* C3: when a change propagation receives an answer whose legal set for a
\* radio field excludes the option that is on, the field is cleared: after
\* the propagation no option of a radio field is on that the answer excludes,
\* and `request` holds no such option.
C3_RadioClearedWhenIllegal ==
    (provider = "rows" /\ Propagated) =>
        \A w \in Controls :
            (w.kind = "radio" /\ w.key \in DOMAIN LastAnswer) =>
                /\ \A i \in OnIndices(w) : w.opts[i] \in LastAnswer[w.key]
                /\ \A i \in 1..Len(request) :
                       request[i].key = w.key =>
                           Range(request[i].val) \subseteq LastAnswer[w.key]

\* C4: whenever a form is shown, every visible sub-control's option is in
\* the legal set the provider reports for the controls' current non-empty
\* selection.
C4_VisibleSubsetOfLegal ==
    (provider = "rows" /\ output = "form") =>
        LET legal == ApplyConstraints(Catalogue[value].rows, CurrentSelection)
        IN  \A w \in Controls :
                w.key \in DOMAIN legal =>
                    {w.opts[i] : i \in {k \in 1..Len(w.vis) : w.vis[k]}}
                        \subseteq legal[w.key]

\* C5: after every completed change propagation the JSON preview shows
\* exactly `request`: the same keys with the same value lists.
C5_PreviewEqualsRequest ==
    Propagated =>
        preview = << [i \in 1..Len(request) |-> <<request[i].key, request[i].val>>] >>

\* C6 as stated: right after a build every sub-control is on if and only if
\* its option is in the field's default list.
C6_OnIffDefault ==
    JustBuilt =>
        \A w \in Controls : \A i \in 1..Len(w.on) :
            w.on[i] <=> (w.opts[i] \in DefaultsOf(w))

\* C6 as amended: right after a build, a checkbox sub-control is on if and
\* only if its option is in the default list; of a radio field the one
\* sub-control that is on is the last one whose option is in the default list.
C6_OnIffDefaultLastRadio ==
    JustBuilt =>
        \A w \in Controls : \A i \in 1..Len(w.on) :
            w.on[i] <=>
                /\ w.opts[i] \in DefaultsOf(w)
                /\ w.kind = "radio" =>
                     \A j \in (i + 1)..Len(w.on) : w.opts[j] \notin DefaultsOf(w)

\* C6 witness: beta has just been built: its checkbox default a is on, and
\* of its radio defaults x and y only y is.
C6_Witness ==
    /\ JustBuilt /\ value = "beta"
    /\ \E w \in Controls : w.key = "variable" /\ w.on = <<TRUE, FALSE>>
    /\ \E w \in Controls : /\ w.key = "mode" /\ w.on = <<FALSE, TRUE>>
                           /\ DefaultsOf(w) = {"x", "y"}

\* the names of the schema entries that match neither ignore list
NonIgnoredNames(schema) ==
    { Get(schema[i].name, "") : i \in
        { k \in 1..Len(schema) :
            /\ Get(schema[k].name, "") \notin {"download_format", "data_format"}
            /\ Get(schema[k].type, "") \notin
                 {"ExclusiveGroupWidget", "FreeEditionWidget",
                  "GeographicExtentWidget", "GeographicLocationWidget",
                  "LicenceWidget"} } }

\* C7: in every state every key of `request` names a non-ignored field of
\* the form of the dataset chosen in the selector.
C7_RequestKeysAreFields ==
    value # NoneValue =>
        \A i \in 1..Len(request) :
            request[i].key \in NonIgnoredNames(Catalogue[value].form)

\* C8: a dataset-change event whose new id equals the old one rebuilds
\* nothing; one that differs and succeeds leaves exactly one control per
\* translated field of the new collection, with no sub-control on outside
\* the new defaults, and `request` holds only values from those defaults.
C8_RebuildFromScratch ==
    [][ lastEvent'.kind = "dataset" =>
          IF value' = value
          THEN UNCHANGED <<widget_defs, request, selection, preview, output,
                           displayed, form, form_widgets, collection_id>>
          ELSE error' = "none" =>
                 /\ output' = "form"
                 /\ [n \in 1..Len(widget_defs') |-> widget_defs'[n].key]
                      = [n \in 1..Len(form_widgets') |-> form_widgets'[n].key]
                 /\ form_widgets' = MarkTitles(FormJsonToWidgetsDict(Catalogue[value'].form), 1)
                 /\ displayed' = [n \in 1..Len(widget_defs') |-> widget_defs'[n].key]
                 /\ \A n \in 1..Len(widget_defs') :
                      LET w == widget_defs'[n]
                      IN  \A i \in OnIndices(w) :
                              w.opts[i] \in Range(Get(form_widgets'[n].default, <<>>))
                 /\ \A i \in 1..Len(request') :
                      \E n \in 1..Len(form_widgets') :
                          /\ form_widgets'[n].key = request'[i].key
                          /\ Range(request'[i].val)
                               \subseteq Range(Get(form_widgets'[n].default, <<>>))
      ]_vars

\* C8 witness: the selector went from alpha to beta and beta's form is shown
\* with the selection of beta's defaults.
C8_Witness ==
    /\ lastEvent.kind = "dataset" /\ lastEvent.old = "alpha" /\ lastEvent.id = "beta"
    /\ output = "form"
    /\ request = << [key |-> "variable", val |-> <<"a">>],
                    [key |-> "mode", val |-> <<"y">>] >>

\* some translated field of the form fetched last has a kind other than
\* checkbox and radio
HasUnsupportedField ==
    \E n \in 1..Len(form_widgets) : form_widgets[n].type \notin {"checkbox", "radio"}

\* C9: if a translated field of the newly selected collection has a kind
\* other than checkbox or radio, the build raises and nothing of the form is
\* shown: the display holds no field control, wherever the field stands.
C9_UnsupportedAborts ==
    (lastEvent.kind = "dataset" /\ lastEvent.id # lastEvent.old
        /\ HasUnsupportedField) =>
            /\ error = "ValueError"
            /\ output = "loading"
            /\ displayed = <<>>

\* C9 witness: delta, whose second field has no type, was selected: the
\* build raised after its first control was made, and nothing is shown.
C9_Witness ==
    /\ lastEvent.kind = "dataset" /\ value = "delta"
    /\ error = "ValueError"
    /\ Len(widget_defs) = 1
    /\ displayed = <<>>

\* a schema entry matches an ignore list
MatchesIgnoreList(e) ==
    \/ Get(e.name, "") \in {"download_format", "data_format"}
    \/ Get(e.type, "") \in
         {"ExclusiveGroupWidget", "FreeEditionWidget", "GeographicExtentWidget",
          "GeographicLocationWidget", "LicenceWidget"}

\* C10 as stated: the translated mapping contains the name of no schema
\* entry that matches an ignore list.
C10_IgnoredNameAbsent ==
    lastEvent.kind = "translate" =>
        \A i \in 1..Len(form) :
            MatchesIgnoreList(form[i]) => Get(form[i].name, "") \notin Keys(form_widgets)

\* C10 as amended: no name of the ignore-name set is in the translated
\* mapping, and the name of an entry that matches an ignore list is in it
\* only if another entry of that name matches neither list.
C10_IgnoredEntryNotTranslated ==
    lastEvent.kind = "translate" =>
        /\ Keys(form_widgets) \cap {"download_format", "data_format"} = {}
        /\ \A i \in 1..Len(form) :
             (MatchesIgnoreList(form[i]) /\ Get(form[i].name, "") \in Keys(form_widgets))
                => \E j \in 1..Len(form) :
                      /\ Get(form[j].name, "") = Get(form[i].name, "")
                      /\ ~MatchesIgnoreList(form[j])

\* C10 witness: a schema with an entry of an ignored type and an entry of
\* an ignored name has been translated to an empty mapping.
C10_Witness ==
    /\ lastEvent.kind = "translate"
    /\ Len(form) = 2
    /\ form[1].name = <<"variable">> /\ form[1].type = <<"LicenceWidget">>
    /\ form[2].name = <<"download_format">> /\ form[2].type = <<"StringListWidget">>
    /\ form_widgets = <<>>

\* the first occurrences of a list, in order
RECURSIVE FirstSeen(_)
FirstSeen(s) ==
    IF s = <<>> THEN <<>>
    ELSE LET front == FirstSeen(SubSeq(s, 1, Len(s) - 1))
         IN  IF s[Len(s)] \in Range(front) THEN front ELSE Append(front, s[Len(s)])

\* the value lists of the groups, concatenated
RECURSIVE AllGroupValues(_)
AllGroupValues(groups) ==
    IF groups = <<>> THEN <<>>
    ELSE groups[1].values \o AllGroupValues(Tail(groups))

\* the largest column count the groups declare, and at least 1
RECURSIVE MaxGroupColumns(_)
MaxGroupColumns(groups) ==
    IF groups = <<>> THEN 1
    ELSE LET rest == MaxGroupColumns(Tail(groups))
             c    == IF groups[1].columns = <<>> THEN 1 ELSE groups[1].columns[1]
         IN  IF c >= rest THEN c ELSE rest

\* C11: for an entry with grouped details the merged value list has no
\* duplicates and lists the values in first-seen order across the groups,
\* also when a group repeats a value, and the merged column count is the
\* maximum over the groups (at least 1).
C11_GroupsMerged ==
    (lastEvent.kind = "translate" /\ Len(form) = 1 /\ form[1].details.groups # <<>>) =>
        LET groups == form[1].details.groups[1]
            merged == form_widgets[1]
        IN  /\ \A i, j \in 1..Len(merged.values) :
                  i # j => merged.values[i] # merged.values[j]
            /\ merged.values = FirstSeen(AllGroupValues(groups))
            /\ merged.columns = MaxGroupColumns(groups)

\* C11 for the entries none of whose groups repeats a value within itself
C11_ExceptRepeatInsideGroup ==
    (lastEvent.kind = "translate" /\ Len(form) = 1 /\ form[1].details.groups # <<>>
        /\ \A g \in Range(form[1].details.groups[1]) :
              \A i, j \in 1..Len(g.values) : i # j => g.values[i] # g.values[j]) =>
        LET groups == form[1].details.groups[1]
            merged == form_widgets[1]
        IN  /\ merged.values = FirstSeen(AllGroupValues(groups))
            /\ merged.columns = MaxGroupColumns(groups)

\* the name of a schema entry
NameOf(e) == IF e.name = <<>> THEN "" ELSE e.name[1]

\* the control kind a raw type stands for
KindOf(e) ==
    LET t == IF e.type = <<>> THEN "" ELSE e.type[1]
    IN  CASE t = "StringListWidget" -> "checkbox"
          [] t = "StringListArrayWidget" -> "checkbox"
          [] t = "StringChoiceWidget" -> "radio"
          [] OTHER -> t

\* the translated field carries the labels, values, columns, type and
\* default the schema entry e declares
Carries(fw, e) ==
    /\ fw.type = KindOf(e)
    /\ fw.default = e.details.default
    /\ IF e.details.groups = <<>>
       THEN /\ fw.labels = e.details.labels
            /\ fw.values = e.details.values
            /\ fw.columns = (IF e.details.columns = <<>> THEN 1
                             ELSE e.details.columns[1])
       ELSE /\ fw.values = FirstSeen(AllGroupValues(e.details.groups[1]))
            /\ fw.columns = MaxGroupColumns(e.details.groups[1])
            /\ \A g \in Range(e.details.groups[1]) :
                  DOMAIN g.labels \subseteq DOMAIN fw.labels

\* the translated fields named k
FieldsNamed(k) == {n \in 1..Len(form_widgets) : form_widgets[n].key = k}

\* the name of entry i appears again later in the schema
Repeated(i) == \E j \in (i + 1)..Len(form) : NameOf(form[j]) = NameOf(form[i])

\* C12 as stated: when a name appears in more than one schema entry, the
\* translated mapping has exactly one entry of that name, carrying the
\* labels, values, columns, type and default of the first schema entry of
\* that name.
C12_FirstEntryWins ==
    lastEvent.kind = "translate" =>
        \A i \in 1..Len(form) :
            (Repeated(i) /\ \A j \in 1..(i - 1) : NameOf(form[j]) # NameOf(form[i])) =>
                /\ Cardinality(FieldsNamed(NameOf(form[i]))) = 1
                /\ \A n \in FieldsNamed(NameOf(form[i])) : Carries(form_widgets[n], form[i])

\* C12 as amended: when a name appears in more than one schema entry, the
\* translated mapping has exactly one entry of that name, carrying the
\* labels, values, columns, type and default of the first entry of that name
\* that matches neither ignore list, and no entry of that name when every
\* entry of the name matches an ignore list; no name is translated twice.
C12_FirstKeptEntryWins ==
    lastEvent.kind = "translate" =>
        /\ \A n, k \in 1..Len(form_widgets) :
              form_widgets[n].key = form_widgets[k].key => n = k
        /\ \A i \in 1..Len(form) :
             (\E j \in 1..Len(form) : j # i /\ NameOf(form[j]) = NameOf(form[i])) =>
                IF MatchesIgnoreList(form[i])
                THEN (\A j \in 1..Len(form) :
                         NameOf(form[j]) = NameOf(form[i]) => MatchesIgnoreList(form[j]))
                        => FieldsNamed(NameOf(form[i])) = {}
                ELSE (\A j \in 1..(i - 1) :
                         NameOf(form[j]) = NameOf(form[i]) => MatchesIgnoreList(form[j]))
                        => /\ Cardinality(FieldsNamed(NameOf(form[i]))) = 1
                           /\ \A n \in FieldsNamed(NameOf(form[i])) :
                                 Carries(form_widgets[n], form[i])

\* C12 witness: two entries named variable with different types, values,
\* columns and defaults were translated to the one field the first declares.
C12_Witness ==
    /\ lastEvent.kind = "translate"
    /\ Len(form) = 2
    /\ form[1].name = <<"variable">> /\ form[2].name = <<"variable">>
    /\ form[1].type = <<"StringChoiceWidget">> /\ form[2].type = <<"StringListWidget">>
    /\ form[1].details.values = <<"b">> /\ form[2].details.values = <<"a", "b">>
    /\ Len(form_widgets) = 1
    /\ form_widgets[1].type = "radio"
    /\ form_widgets[1].values = <<"b">>
    /\ form_widgets[1].columns = 2
    /\ form_widgets[1].default = << <<"b">> >>

\* C13: in every state `request` holds no key with an empty list, and a
\* field whose extraction is empty has no entry in `request`.
C13_NoEmptySelection ==
    /\ \A i \in 1..Len(request) : request[i].val # <<>>
    /\ \A w \in Controls :
          get_value(w) = <<>> => \A i \in 1..Len(request) : request[i].key # w.key

\* C13, its first half alone: `request` holds no key with an empty list
C13_NoEmptyValue == \A i \in 1..Len(request) : request[i].val # <<>>

\* C14: for a checkbox field the extraction is exactly the options whose
\* sub-control is on, visible or hidden, in the order the translated field
\* declares them.
C14_CheckboxExtraction ==
    \A w \in Controls :
        w.kind = "checkbox" =>
            LET v == get_value(w)
            IN  /\ w.opts = Lookup(form_widgets, w.key).values
                /\ Len(v) = Cardinality(OnIndices(w))
                /\ \E f \in [1..Len(v) -> OnIndices(w)] :
                      /\ \A a, b \in 1..Len(v) : a < b => f[a] < f[b]
                      /\ \A a \in 1..Len(v) : v[a] = w.opts[f[a]]

\* C14 witness: a checkbox field with both options on, one of them hidden,
\* whose extraction lists both in declared order.
C14_Witness ==
    \E w \in Controls :
        /\ w.kind = "checkbox"
        /\ w.on = <<TRUE, TRUE>>
        /\ w.vis = <<FALSE, TRUE>>
        /\ get_value(w) = <<"a", "b">>

\* C15: every call of the constraint evaluator, also during a build, passes
\* exactly the non-empty extractions of the collection's fields: no field
\* with an empty value, and no field omitted that has an option on, the
\* field under construction included.
C15_QueryIsCurrentSelection ==
    /\ \A c \in 1..Len(calls) :
          /\ \A q \in 1..Len(calls[c].query) : calls[c].query[q].val # <<>>
          /\ \A p \in 1..Len(calls[c].pending) :
                calls[c].pending[p].val # <<>> =>
                    \E q \in 1..Len(calls[c].query) :
                        calls[c].query[q] = calls[c].pending[p]
    /\ Propagated => (Len(calls) = 1 /\ calls[1].query = CurrentSelection)

\* C15 for the calls a user toggle makes: the query is the non-empty
\* extractions of the controls
C15_ToggleQuery ==
    /\ \A c \in 1..Len(calls) :
          \A q \in 1..Len(calls[c].query) : calls[c].query[q].val # <<>>
    /\ Propagated => (Len(calls) = 1 /\ calls[1].query = CurrentSelection)

\* after a propagation answered from the constraint rows, a sub-control of
\* a checkbox field the answer reports is visible iff its option is legal
C16_VisibleIffLegal ==
    (provider = "rows" /\ Propagated) =>
        \A w \in Controls :
            (w.kind = "checkbox" /\ w.key \in DOMAIN LastAnswer) =>
                \A i \in 1..Len(w.vis) : w.vis[i] <=> (w.opts[i] \in LastAnswer[w.key])

\* a toggle step leaves the buttons of every checkbox field as they were,
\* but for the toggled button itself, whatever the provider answers
C16_OnUnchanged ==
    lastEvent'.kind = "toggle" =>
        /\ Len(widget_defs') = Len(widget_defs)
        /\ \A n \in 1..Len(widget_defs) :
              widget_defs[n].kind = "checkbox" =>
                  /\ widget_defs'[n].opts = widget_defs[n].opts
                  /\ \A i \in 1..Len(widget_defs[n].on) :
                        IF widget_defs[n].key = lastEvent'.key /\ i = lastEvent'.idx
                        THEN widget_defs'[n].on[i] = ~widget_defs[n].on[i]
                        ELSE widget_defs'[n].on[i] = widget_defs[n].on[i]

\* C16: applying a constraint response to a checkbox field changes only the
\* visibility of its sub-controls: each is visible afterwards iff its
\* option is in the reported legal set, and every sub-control keeps its
\* on/off state, so an illegal option that is on stays on while hidden.
C16_CheckboxOnlyVisibility == []C16_VisibleIffLegal /\ [][C16_OnUnchanged]_vars

\* C16 witness: after a propagation an option of a checkbox field is on,
\* hidden, and outside the legal set the provider reported.
C16_Witness ==
    /\ provider = "rows" /\ Propagated
    /\ \E w \in Controls :
          /\ w.kind = "checkbox" /\ w.key \in DOMAIN LastAnswer
          /\ \E i \in 1..Len(w.on) :
                w.on[i] /\ ~w.vis[i] /\ w.opts[i] \notin LastAnswer[w.key]

\* the toggled button belongs to a radio field and was switched off
RadioSwitchedOff ==
    /\ lastEvent.kind = "toggle" /\ ~lastEvent.on
    /\ \E w \in Controls : w.key = lastEvent.key /\ w.kind = "radio"

\* C17: change propagation is single-pass: a user toggle, a radio toggle
\* that forces a sibling off included, makes at most one call to the
\* constraint evaluator (none when a radio button is switched off), and
\* applying the answer makes no further call, whatever the answer is.
C17_SinglePass ==
    lastEvent.kind = "toggle" =>
        /\ Len(calls) <= 1
        /\ Len(calls) = 0 <=> RadioSwitchedOff

\* C17 witness: a radio button was switched on, the answer hid a button
\* that is on, and the evaluator was called once.
C17_Witness ==
    /\ lastEvent.kind = "toggle" /\ lastEvent.on
    /\ \E w \in Controls : w.key = lastEvent.key /\ w.kind = "radio"
    /\ \E w \in Controls : \E i \in 1..Len(w.on) : w.on[i] /\ ~w.vis[i]
    /\ Len(calls) = 1

\* a toggle step on field F leaves the buttons of every other field as they
\* were, and in a checkbox field F every button but the toggled one
C18_Frame ==
    lastEvent'.kind = "toggle" =>
        /\ Len(widget_defs') = Len(widget_defs)
        /\ \A n \in 1..Len(widget_defs) :
              /\ widget_defs'[n].key = widget_defs[n].key
              /\ widget_defs[n].key # lastEvent'.key =>
                    widget_defs'[n].on = widget_defs[n].on
              /\ (widget_defs[n].key = lastEvent'.key
                    /\ widget_defs[n].kind = "checkbox") =>
                    \A i \in 1..Len(widget_defs[n].on) :
                        i # lastEvent'.idx =>
                            widget_defs'[n].on[i] = widget_defs[n].on[i]

\* C18: a toggle on a sub-control of field F never changes the on/off state
\* of a sub-control of another field G, whatever the provider answers; in a
\* checkbox F only the toggled sub-control changes, in a radio F only the
\* toggled sub-control and its siblings.
C18_ToggleFrame == [][C18_Frame]_vars

\* C18 witness: after a toggle on one field the answer has hidden a button
\* of another field, a radio field, and that button is still on.
C18_Witness ==
    /\ Propagated
    /\ \E w \in Controls :
          /\ w.key # lastEvent.key /\ w.kind = "radio"
          /\ \E i \in 1..Len(w.on) : w.on[i] /\ ~w.vis[i]

====
